---- MODULE Spec2Model ----
(***************************************************************************)
(* Path matchers of internal/model/matcher.go: emptyMatcher, fileMatcher,  *)
(* fileOrChildMatcher, PathSet, globMatcher, CompositePathMatcher and      *)
(* CompositePatternMatcher, with their constructors and queries.           *)
(*                                                                         *)
(* A path (and a glob) is a Go string: a sequence of one-character         *)
(* strings.  Paths are Unix paths without "." and ".." segments.           *)
(***************************************************************************)
EXTENDS Naturals, Sequences, FiniteSets, TLC

VARIABLES
    pc,        \* "load" (configuration load), "run" (queries), "failed", "panicked"
    matchers,  \* the list being assembled for NewCompositeMatcher
    ctor,      \* the constructor call that gave built, or that aborted the process
    built,     \* the constructed matcher or PathSet
    call,      \* the last query made of built
    ret,       \* what that query returned
    first      \* an earlier query and its result, kept for comparison

vars == <<pc, matchers, ctor, built, call, ret, first>>

\* ---------------------------------------------------------------- bounds
\* Longest argument list of a variadic path constructor and of a PathSet.
MaxPaths == 2
\* Longest candidate list handed to PathSet.AnyMatch.
MaxCands == 2
\* Longest matcher list handed to NewCompositeMatcher.
MaxMatchers == 3
\* Longest pattern list handed to NewGlobMatcher.
MaxGlobs == 2

\* ------------------------------------------------------- strings and sets
Sep == "/"

\* All sequences over S of length at most n.
RECURSIVE SeqsUpTo(_, _)
SeqsUpTo(S, n) ==
    IF n = 0 THEN {<<>>}
    ELSE LET shorter == SeqsUpTo(S, n - 1)
         IN  shorter \cup {Append(s, x) : s \in {t \in shorter : Len(t) = n - 1}, x \in S}

\* The orders in which a Go map with key set S can be ranged over.
RECURSIVE Orders(_)
Orders(S) ==
    IF S = {} THEN {<<>>}
    ELSE UNION {{<<x>> \o o : o \in Orders(S \ {x})} : x \in S}

RECURSIVE Flatten(_)
Flatten(ss) == IF ss = <<>> THEN <<>> ELSE Head(ss) \o Flatten(Tail(ss))

IsPrefixSeq(s, t) == Len(s) <= Len(t) /\ SubSeq(t, 1, Len(s)) = s

\* ------------------------------------------------------ path/filepath
\* filepath.IsAbs (Unix): the path starts with a separator.
IsAbs(p) == Len(p) > 0 /\ p[1] = Sep

\* filepath.Clean restricted to paths without "." and ".." segments: runs of
\* separators collapse to one, a trailing separator is dropped unless the path
\* is the root, and the empty path becomes ".".
RECURSIVE Collapse(_)
Collapse(p) ==
    IF Len(p) <= 1 THEN p
    ELSE IF p[1] = Sep /\ p[2] = Sep THEN Collapse(Tail(p))
    ELSE <<p[1]>> \o Collapse(Tail(p))

Clean(p) ==
    IF p = <<>> THEN <<".">>
    ELSE LET c == Collapse(p)
         IN  IF Len(c) > 1 /\ c[Len(c)] = Sep THEN SubSeq(c, 1, Len(c) - 1) ELSE c

\* filepath.Join of two elements: empty elements are ignored, the rest are
\* joined with a separator and cleaned; all empty gives the empty string.
Join(a, b) ==
    IF a = <<>> /\ b = <<>> THEN <<>>
    ELSE IF a = <<>> THEN Clean(b)
    ELSE IF b = <<>> THEN Clean(a)
    ELSE Clean(a \o <<Sep>> \o b)

\* filepath.Dir of a clean path: all but the last element.
RECURSIVE LastSep(_, _)
LastSep(p, i) == IF i = 0 THEN 0 ELSE IF p[i] = Sep THEN i ELSE LastSep(p, i - 1)

Dir(p) ==
    LET i == LastSep(p, Len(p))
    IN  IF i = 0 THEN <<".">>
        ELSE IF i = 1 THEN <<Sep>>
        ELSE Clean(SubSeq(p, 1, i - 1))

\* filepath.Abs: an absolute path is cleaned; a relative one is joined to the
\* working directory, and fails when the working directory cannot be read
\* (wd = NoWd).
NoWd == <<"?">>
Abs(wd, p) ==
    IF IsAbs(p) THEN [path |-> Clean(p), err |-> "nil"]
    ELSE IF wd = NoWd THEN [path |-> <<>>, err |-> "getwd"]
    ELSE [path |-> Join(wd, p), err |-> "nil"]

\* ospath.IsChild(dir, file): file lies in the subtree rooted at dir, decided
\* on path segments: both are cleaned and file is walked up, parent by parent,
\* until it is dir or is no longer than dir.
RECURSIVE WalkUp(_, _)
WalkUp(dir, current) ==
    IF dir = current THEN TRUE
    ELSE IF Len(current) <= Len(dir) \/ current = <<".">> THEN FALSE
    ELSE WalkUp(dir, Dir(current))

IsChild(dir, file) ==
    IF dir = <<>> THEN FALSE ELSE WalkUp(Clean(dir), Clean(file))

\* ------------------------------------------------------------- matchers
Nil == "nil"

\* emptyMatcher and the package variable EmptyMatcher.
EmptyMatcher == [kind |-> "emptyMatcher"]

\* Mutant: the constant inverted.
emptyMatcher_Matches_All(m, f, isDir) == [ret |-> TRUE, err |-> Nil]

emptyMatcher_Matches(m, f, isDir) == [ret |-> FALSE, err |-> Nil]

\* Mutant: a string-prefix test instead of the map lookup.
fileMatcher_Matches_Prefix(m, f, isDir) ==
    [ret |-> \E p \in m.paths : IsPrefixSeq(p, f), err |-> Nil]

\* fileMatcher.Matches: a map lookup; a missing key reads as false.
fileMatcher_Matches(m, f, isDir) == [ret |-> f \in m.paths, err |-> Nil]

\* NewSimpleFileMatcher(paths...) in working directory wd: each path is made
\* absolute; the first failure returns the zero fileMatcher and the error.
RECURSIVE SimpleFileLoop(_, _, _, _)
SimpleFileLoop(wd, paths, i, pathMap) ==
    IF i > Len(paths) THEN [m |-> [kind |-> "fileMatcher", paths |-> pathMap], err |-> Nil]
    ELSE LET a == Abs(wd, paths[i])
         IN  IF a.err # "nil"
             THEN [m |-> [kind |-> "fileMatcher", paths |-> {}],
                   err |-> "NewSimplePathMatcher"]
             ELSE SimpleFileLoop(wd, paths, i + 1, pathMap \cup {a.path})

NewSimpleFileMatcher(wd, paths) == SimpleFileLoop(wd, paths, 1, {})

\* fileOrChildMatcher.Matches with the map ranged over in the given order.
RECURSIVE ChildScan(_, _, _)
ChildScan(order, i, f) ==
    IF i > Len(order) THEN FALSE
    ELSE IF IsChild(order[i], f) THEN TRUE
    ELSE ChildScan(order, i + 1, f)

\* Mutant: the loop returns after the first member it ranges over.
fileOrChildMatcher_MatchesIn_FirstOnly(m, order, f) ==
    IF f \in m.paths THEN [ret |-> TRUE, err |-> Nil]
    ELSE [ret |-> order # <<>> /\ IsChild(order[1], f), err |-> Nil]

fileOrChildMatcher_MatchesIn(m, order, f) ==
    IF f \in m.paths THEN [ret |-> TRUE, err |-> Nil]
    ELSE [ret |-> ChildScan(order, 1, f), err |-> Nil]

\* fileOrChildMatcher.Matches: every result the map's iteration order allows.
fileOrChildMatcher_Matches(m, f, isDir) ==
    {fileOrChildMatcher_MatchesIn(m, o, f) : o \in Orders(m.paths)}

\* NewRelativeFileOrChildMatcher(baseDir, paths...).
RECURSIVE RelativeLoop(_, _, _, _)
RelativeLoop(baseDir, paths, i, pathMap) ==
    IF i > Len(paths) THEN pathMap
    ELSE LET path == IF ~IsAbs(paths[i]) THEN Join(baseDir, paths[i]) ELSE paths[i]
         IN  RelativeLoop(baseDir, paths, i + 1, pathMap \cup {path})

NewRelativeFileOrChildMatcher(baseDir, paths) ==
    [kind |-> "fileOrChildMatcher", paths |-> RelativeLoop(baseDir, paths, 1, {})]

\* PathSet, NewPathSet and Empty.
NewPathSet(paths, baseDir) ==
    [kind |-> "PathSet", Paths |-> paths, BaseDirectory |-> baseDir]

Empty(ps) == Len(ps.Paths) = 0

\* PathSet.AnyMatch: every result the matcher's iteration orders allow.
RECURSIVE AnyMatchLoop(_, _, _)
AnyMatchLoop(matcher, paths, i) ==
    IF i > Len(paths) THEN {[matched |-> FALSE, path |-> <<>>, err |-> Nil]}
    ELSE UNION {
        IF o.err # Nil THEN {[matched |-> FALSE, path |-> <<>>, err |-> o.err]}
        ELSE IF o.ret THEN {[matched |-> TRUE, path |-> paths[i], err |-> Nil]}
        ELSE AnyMatchLoop(matcher, paths, i + 1)
        : o \in fileOrChildMatcher_Matches(matcher, paths[i], FALSE)}

\* Mutant: the first member path is returned instead of the candidate.
AnyMatch_MemberPath(ps, paths) ==
    {[r EXCEPT !.path = IF r.matched THEN Join(ps.BaseDirectory, ps.Paths[1]) ELSE <<>>] :
        r \in AnyMatchLoop(NewRelativeFileOrChildMatcher(ps.BaseDirectory, ps.Paths),
                           paths, 1)}

AnyMatch(ps, paths) ==
    AnyMatchLoop(NewRelativeFileOrChildMatcher(ps.BaseDirectory, ps.Paths), paths, 1)

\* glob.Compile and Glob.Match of github.com/gobwas/glob for patterns of
\* literal characters, "*" (any run of characters: no separators are given)
\* and "[" (opens a character class; left unclosed it is a syntax error).
RECURSIVE HasClose(_)
HasClose(g) == g # <<>> /\ (Head(g) = "]" \/ HasClose(Tail(g)))

RECURSIVE Malformed(_)
Malformed(g) ==
    g # <<>> /\ ((Head(g) = "[" /\ ~HasClose(Tail(g))) \/ Malformed(Tail(g)))

RECURSIVE GlobMatch(_, _)
GlobMatch(g, s) ==
    IF g = <<>> THEN s = <<>>
    ELSE IF Head(g) = "*"
         THEN GlobMatch(Tail(g), s) \/ (s # <<>> /\ GlobMatch(g, Tail(s)))
         ELSE s # <<>> /\ Head(s) = Head(g) /\ GlobMatch(Tail(g), Tail(s))

\* globMatcher.Matches.
RECURSIVE GlobScan(_, _, _)
GlobScan(globs, i, f) ==
    IF i > Len(globs) THEN FALSE
    ELSE IF GlobMatch(globs[i], f) THEN TRUE
    ELSE GlobScan(globs, i + 1, f)

globMatcher_Matches(gm, f, isDir) == [ret |-> GlobScan(gm.globs, 1, f), err |-> Nil]

\* NewGlobMatcher(globs...): glob.MustCompile panics on a malformed pattern;
\* the function has no error result.
RECURSIVE GlobLoop(_, _, _)
GlobLoop(globs, i, compiled) ==
    IF i > Len(globs) THEN [panic |-> FALSE, m |-> [kind |-> "globMatcher", globs |-> compiled]]
    ELSE IF Malformed(globs[i])
         THEN [panic |-> TRUE, m |-> [kind |-> "globMatcher", globs |-> compiled]]
         ELSE GlobLoop(globs, i + 1, Append(compiled, globs[i]))

NewGlobMatcher(globs) == GlobLoop(globs, 1, <<>>)

\* An implementation of PathMatcher or PatternMatcher from outside the package:
\* the paths it matches, the paths it fails on with its error, and, when it
\* has AsMatchPatterns, the patterns it gives.
External(pattern, matchOn, errOn, err, patterns) ==
    [kind |-> "external", pattern |-> pattern, matchOn |-> matchOn,
     errOn |-> errOn, err |-> err, patterns |-> patterns]

external_Matches(m, f, isDir) ==
    IF f \in m.errOn THEN [ret |-> FALSE, err |-> m.err]
    ELSE [ret |-> f \in m.matchOn, err |-> Nil]

\* The PatternMatcher interface: the method set holds AsMatchPatterns.
IsPatternMatcher(m) ==
    m.kind = "CompositePatternMatcher" \/ (m.kind = "external" /\ m.pattern)

\* Matches through the PathMatcher interface: every result a call can give,
\* each with the constituents a composite evaluated, in order.
RECURSIVE Matches(_, _, _)
RECURSIVE CompositeLoop(_, _, _, _)
CompositeLoop(ms, i, f, isDir) ==
    IF i > Len(ms) THEN {[ret |-> FALSE, err |-> Nil, evaluated |-> <<>>]}
    ELSE UNION {
        IF o.err # Nil THEN {[ret |-> FALSE, err |-> o.err, evaluated |-> <<i>>]}
        ELSE IF o.ret THEN {[ret |-> TRUE, err |-> Nil, evaluated |-> <<i>>]}
        ELSE {[r EXCEPT !.evaluated = <<i>> \o @] : r \in CompositeLoop(ms, i + 1, f, isDir)}
        : o \in Matches(ms[i], f, isDir)}

\* Mutant: a constituent's error is dropped and the scan goes on.
RECURSIVE PastErrorLoop(_, _, _, _)
PastErrorLoop(ms, i, f, isDir) ==
    IF i > Len(ms) THEN {[ret |-> FALSE, err |-> Nil, evaluated |-> <<>>]}
    ELSE UNION {
        IF o.err = Nil /\ o.ret THEN {[ret |-> TRUE, err |-> Nil, evaluated |-> <<i>>]}
        ELSE {[r EXCEPT !.evaluated = <<i>> \o @] : r \in PastErrorLoop(ms, i + 1, f, isDir)}
        : o \in Matches(ms[i], f, isDir)}

CompositePathMatcher_Matches_PastError(c, f, isDir) ==
    PastErrorLoop(c.Matchers, 1, f, isDir)

\* CompositePathMatcher.Matches.
CompositePathMatcher_Matches(c, f, isDir) == CompositeLoop(c.Matchers, 1, f, isDir)

Leaf(o) == [ret |-> o.ret, err |-> o.err, evaluated |-> <<>>]

Matches(m, f, isDir) ==
    CASE m.kind = "emptyMatcher" -> {Leaf(emptyMatcher_Matches(m, f, isDir))}
      [] m.kind = "fileMatcher" -> {Leaf(fileMatcher_Matches(m, f, isDir))}
      [] m.kind = "fileOrChildMatcher" ->
            {Leaf(o) : o \in fileOrChildMatcher_Matches(m, f, isDir)}
      [] m.kind = "globMatcher" -> {Leaf(globMatcher_Matches(m, f, isDir))}
      [] m.kind = "external" -> {Leaf(external_Matches(m, f, isDir))}
      [] m.kind = "CompositePathMatcher" -> CompositePathMatcher_Matches(m, f, isDir)
      [] m.kind = "CompositePatternMatcher" ->
            CompositePathMatcher_Matches(m.CompositePathMatcher, f, isDir)

\* AsMatchPatterns through the PatternMatcher interface;
\* CompositePatternMatcher.AsMatchPatterns appends each member's patterns.
RECURSIVE AsMatchPatterns(_)
RECURSIVE PatternsLoop(_, _, _)
PatternsLoop(ms, i, result) ==
    IF i > Len(ms) THEN result
    ELSE PatternsLoop(ms, i + 1, result \o AsMatchPatterns(ms[i]))

CompositePatternMatcher_AsMatchPatterns(c) == PatternsLoop(c.Matchers, 1, <<>>)

AsMatchPatterns(m) ==
    IF m.kind = "CompositePatternMatcher" THEN CompositePatternMatcher_AsMatchPatterns(m)
    ELSE m.patterns

\* The struct literals CompositePathMatcher{...} and CompositePatternMatcher{...}.
CompositePathMatcher(ms) == [kind |-> "CompositePathMatcher", Matchers |-> ms]

CompositePatternMatcher(cMatcher, pMatchers) ==
    [kind |-> "CompositePatternMatcher", CompositePathMatcher |-> cMatcher,
     Matchers |-> pMatchers]

\* NewCompositeMatcher: the type assertion m.(CompositePatternMatcher) succeeds
\* only for a value of that concrete type.
RECURSIVE AssertLoop(_, _, _)
AssertLoop(ms, i, pMatchers) ==
    IF i > Len(ms) THEN CompositePatternMatcher(CompositePathMatcher(ms), pMatchers)
    ELSE IF ms[i].kind # "CompositePatternMatcher" THEN CompositePathMatcher(ms)
    ELSE AssertLoop(ms, i + 1, Append(pMatchers, ms[i]))

\* Mutant: the pattern-capable members are kept and the others left out.
IsCompositePattern(m) == m.kind = "CompositePatternMatcher"

NewCompositeMatcher_Partial(ms) ==
    IF Len(ms) = 0 THEN EmptyMatcher
    ELSE IF SelectSeq(ms, IsCompositePattern) = <<>> THEN CompositePathMatcher(ms)
    ELSE CompositePatternMatcher(CompositePathMatcher(ms), SelectSeq(ms, IsCompositePattern))

\* Mutant: no check for the empty list.
NewCompositeMatcher_NoEmptyCheck(ms) == AssertLoop(ms, 1, <<>>)

NewCompositeMatcher(ms) ==
    IF Len(ms) = 0 THEN EmptyMatcher ELSE AssertLoop(ms, 1, <<>>)

\* --------------------------------------------------------------- inputs
\* Base and working directories.
BaseDirs == {<<"/", "r">>, <<"/">>}

WorkDirs == BaseDirs \cup {NoWd}

\* Relative path arguments: "", "a", "ab", "a/", "a/b", "a//b".
RelInputs ==
    {<<>>, <<"a">>, <<"a", "b">>, <<"a", "/">>, <<"a", "/", "b">>,
     <<"a", "/", "/", "b">>}

\* Absolute path arguments: "/r/a", "/a".
AbsInputs == {<<"/", "r", "/", "a">>, <<"/", "a">>}

MemberInputs == RelInputs \cup AbsInputs

\* NewSimpleFileMatcher also takes "/a/", which filepath.Abs cleans.
FileInputs == MemberInputs \cup {<<"/", "a", "/">>}

\* Paths asked of a single matcher, absolute and clean: "/", "/a", "/ab", "/a/b",
\* "/r/a", "/r/ab", "/r/a/b", "/r/b", "/r/a/b/a".
Cands ==
    {<<"/">>, <<"/", "a">>, <<"/", "a", "b">>, <<"/", "a", "/", "b">>,
     <<"/", "r", "/", "a">>, <<"/", "r", "/", "a", "b">>,
     <<"/", "r", "/", "a", "/", "b">>, <<"/", "r", "/", "b">>,
     <<"/", "r", "/", "a", "/", "b", "/", "a">>}

\* Candidates of AnyMatch: "/a", "/ab", "/r/a", "/r/ab", "/r/a/b", "/r/b".
AnyCands ==
    {<<"/", "a">>, <<"/", "a", "b">>, <<"/", "r", "/", "a">>,
     <<"/", "r", "/", "a", "b">>, <<"/", "r", "/", "a", "/", "b">>,
     <<"/", "r", "/", "b">>}

\* Paths a composite is asked about: "/r/a", "/r/ab", "/r/a/b", "/a".
CompositeQueries ==
    {<<"/", "r", "/", "a">>, <<"/", "r", "/", "a", "b">>,
     <<"/", "r", "/", "a", "/", "b">>, <<"/", "a">>}

\* Glob patterns: "*b" and the malformed "[".
Globs == {<<"*", "b">>, <<"[">>}

\* Matchers from outside the package: two plain ones that can fail, two with
\* AsMatchPatterns (their pattern lists share "*.a").
X1 == External(FALSE, {<<"/", "r", "/", "a", "b">>}, {<<"/", "r", "/", "a", "/", "b">>},
               "err1", <<>>)

X2 == External(FALSE, {}, {<<"/", "r", "/", "a", "b">>}, "err2", <<>>)

P1 == External(TRUE, {<<"/", "r", "/", "a", "/", "b">>}, {}, Nil, <<"*.a">>)

P2 == External(TRUE, {<<"/", "a">>}, {<<"/", "r", "/", "a">>}, "err3", <<"*.b", "*.a">>)

\* CompositePatternMatcher values written as struct literals by a caller.
CP1 == CompositePatternMatcher(CompositePathMatcher(<<P1>>), <<P1>>)

CP2 == CompositePatternMatcher(CompositePathMatcher(<<P2, P1>>), <<P2, P1>>)

FocLeaf == NewRelativeFileOrChildMatcher(<<"/", "r">>, << <<"a">>, <<"/", "a">> >>)

\* The matchers a configuration can put into a composite (glob matchers are
\* added by AddGlobMatcher).
Pool == {EmptyMatcher, FocLeaf, X1, X2, P1, CP1, CP2}

PurePool == {FocLeaf, X1, CP1, CP2}

PathLists == SeqsUpTo(MemberInputs, MaxPaths)

FileLists == SeqsUpTo(FileInputs, MaxPaths)

CandLists == SeqsUpTo(AnyCands, MaxCands)

GlobLists == SeqsUpTo(Globs, MaxGlobs)

\* Candidate lists of the repeated-query runs.
PureCandLists ==
    {<<>>,
     << <<"/", "r", "/", "b">>, <<"/", "r", "/", "a", "/", "b">>, <<"/", "a">> >>,
     << <<"/", "a", "/", "b">>, <<"/", "r", "/", "a">> >>,
     << <<"/", "r", "/", "a", "b">> >>,
     << <<"/", "a", "b">>, <<"/", "r", "/", "a", "/", "b", "/", "a">> >>}

\* ---------------------------------------------------------------- state
NoCtor == [op |-> "none"]
NoBuilt == [kind |-> "none"]
NoCall == [op |-> "none"]
NoRet == [op |-> "none"]
NoFirst == [op |-> "none"]

Init ==
    /\ pc = "load"
    /\ matchers = <<>>
    /\ ctor = NoCtor
    /\ built = NoBuilt
    /\ call = NoCall
    /\ ret = NoRet
    /\ first = NoFirst

\* ------------------------------------------------- configuration load
\* The configuration adds one matcher of P to the list it will compose.
AddMatcherFrom(P) ==
    /\ pc = "load"
    /\ Len(matchers) < MaxMatchers
    /\ \E m \in P : matchers' = Append(matchers, m)
    /\ UNCHANGED <<pc, ctor, built, call, ret, first>>

AddMatcher == AddMatcherFrom(Pool)

AddPureMatcher == AddMatcherFrom(PurePool)

\* The configuration calls NewGlobMatcher and adds the result to the list; a
\* panic ends the process.
AddGlobMatcher ==
    /\ pc = "load"
    /\ Len(matchers) < MaxMatchers
    /\ \E globs \in GlobLists :
          LET r == NewGlobMatcher(globs)
          IN  IF r.panic
              THEN /\ pc' = "panicked"
                   /\ ctor' = [op |-> "NewGlobMatcher", globs |-> globs]
                   /\ UNCHANGED matchers
              ELSE /\ matchers' = Append(matchers, r.m)
                   /\ UNCHANGED <<pc, ctor>>
    /\ UNCHANGED <<built, call, ret, first>>

CallNewCompositeMatcher ==
    /\ pc = "load"
    /\ pc' = "run"
    /\ ctor' = [op |-> "NewCompositeMatcher"]
    /\ built' = NewCompositeMatcher(matchers)
    /\ UNCHANGED <<matchers, call, ret, first>>

CallNewSimpleFileMatcher ==
    /\ pc = "load"
    /\ matchers = <<>>
    /\ \E wd \in WorkDirs, paths \in FileLists :
          LET r == NewSimpleFileMatcher(wd, paths)
          IN  /\ pc' = IF r.err = Nil THEN "run" ELSE "failed"
              /\ ctor' = [op |-> "NewSimpleFileMatcher", wd |-> wd, paths |-> paths,
                          err |-> r.err]
              /\ built' = r.m
    /\ UNCHANGED <<matchers, call, ret, first>>

CallNewRelativeFileOrChildMatcher ==
    /\ pc = "load"
    /\ matchers = <<>>
    /\ \E baseDir \in BaseDirs, paths \in PathLists :
          /\ ctor' = [op |-> "NewRelativeFileOrChildMatcher", baseDir |-> baseDir,
                      paths |-> paths]
          /\ built' = NewRelativeFileOrChildMatcher(baseDir, paths)
    /\ pc' = "run"
    /\ UNCHANGED <<matchers, call, ret, first>>

CallNewPathSet ==
    /\ pc = "load"
    /\ matchers = <<>>
    /\ \E baseDir \in BaseDirs, paths \in PathLists :
          /\ ctor' = [op |-> "NewPathSet", baseDir |-> baseDir, paths |-> paths]
          /\ built' = NewPathSet(paths, baseDir)
    /\ pc' = "run"
    /\ UNCHANGED <<matchers, call, ret, first>>

\* -------------------------------------------------------------- queries
\* With keep, the first query made and its result are remembered, and whether
\* a different query was made since.
Remember(keep, c, r) ==
    IF ~keep THEN first
    ELSE IF first = NoFirst
         THEN [op |-> "kept", call |-> c, ret |-> r, between |-> FALSE]
    ELSE IF c # first.call THEN [first EXCEPT !.between = TRUE]
    ELSE first

\* One run of the configured process makes one query (once); the repeated-query
\* runs make any number, over the composite's paths.
QueryPaths(m, once) ==
    IF once /\ m.kind \in {"fileMatcher", "fileOrChildMatcher"} THEN Cands
    ELSE CompositeQueries

\* Mutant: a fileOrChildMatcher drops a member once it has matched exactly.
CallMatchesOf_Forgetting(keep) ==
    /\ pc = "run"
    /\ keep \/ call = NoCall
    /\ built.kind # "PathSet"
    /\ \E f \in QueryPaths(built, ~keep), isDir \in BOOLEAN :
          \E r \in Matches(built, f, isDir) :
             LET c == [op |-> "Matches", f |-> f, isDir |-> isDir, paths |-> <<>>]
             IN  /\ call' = c
                 /\ ret' = r
                 /\ first' = Remember(keep, c, r)
                 /\ built' = IF built.kind = "fileOrChildMatcher"
                              THEN [built EXCEPT !.paths = @ \ {f}]
                              ELSE built
    /\ UNCHANGED <<pc, matchers, ctor>>

\* A caller asks built.Matches(f, isDir).
CallMatchesOf(keep) ==
    /\ pc = "run"
    /\ keep \/ call = NoCall
    /\ built.kind # "PathSet"
    /\ \E f \in QueryPaths(built, ~keep), isDir \in BOOLEAN :
          \E r \in Matches(built, f, isDir) :
             LET c == [op |-> "Matches", f |-> f, isDir |-> isDir, paths |-> <<>>]
             IN  /\ call' = c
                 /\ ret' = r
                 /\ first' = Remember(keep, c, r)
    /\ UNCHANGED <<pc, matchers, ctor, built>>

\* A caller asks built.AnyMatch(paths).
CallAnyMatchOf(lists, keep) ==
    /\ pc = "run"
    /\ keep \/ call = NoCall
    /\ built.kind = "PathSet"
    /\ \E paths \in lists :
          \E r \in AnyMatch(built, paths) :
             LET c == [op |-> "AnyMatch", f |-> <<>>, isDir |-> FALSE, paths |-> paths]
             IN  /\ call' = c
                 /\ ret' = r
                 /\ first' = Remember(keep, c, r)
    /\ UNCHANGED <<pc, matchers, ctor, built>>

\* A caller that holds built as a PatternMatcher asks built.AsMatchPatterns().
CallAsMatchPatternsOf(keep) ==
    /\ pc = "run"
    /\ keep \/ call = NoCall
    /\ built.kind # "PathSet"
    /\ IsPatternMatcher(built)
    /\ LET c == [op |-> "AsMatchPatterns", f |-> <<>>, isDir |-> FALSE, paths |-> <<>>]
           r == [patterns |-> AsMatchPatterns(built)]
       IN  /\ call' = c
           /\ ret' = r
           /\ first' = Remember(keep, c, r)
    /\ UNCHANGED <<pc, matchers, ctor, built>>

CallMatches == CallMatchesOf(FALSE)

CallAnyMatch == CallAnyMatchOf(CandLists, FALSE)

CallAsMatchPatterns == CallAsMatchPatternsOf(FALSE)

RepeatMatches == CallMatchesOf(TRUE)

RepeatAnyMatch == CallAnyMatchOf(PureCandLists, TRUE)

RepeatAsMatchPatterns == CallAsMatchPatternsOf(TRUE)

\* ------------------------------------------------------- specifications
Next ==
    \/ AddMatcher
    \/ AddGlobMatcher
    \/ CallNewCompositeMatcher
    \/ CallNewSimpleFileMatcher
    \/ CallNewRelativeFileOrChildMatcher
    \/ CallNewPathSet
    \/ CallMatches
    \/ CallAnyMatch
    \/ CallAsMatchPatterns

Spec == Init /\ [][Next]_vars

\* Queries repeated, in any order, against one constructed object.
NextPure ==
    \/ AddPureMatcher
    \/ CallNewCompositeMatcher
    \/ CallNewRelativeFileOrChildMatcher
    \/ CallNewPathSet
    \/ RepeatMatches
    \/ RepeatAnyMatch
    \/ RepeatAsMatchPatterns

SpecPure == Init /\ [][NextPure]_vars

\* ---------------------------------------------------------------- claims
\* A path's segments: what lies between its separators.
RECURSIVE SegLoop(_, _, _, _)
SegLoop(p, i, cur, acc) ==
    IF i > Len(p) THEN (IF cur = <<>> THEN acc ELSE Append(acc, cur))
    ELSE IF p[i] = Sep
         THEN SegLoop(p, i + 1, <<>>, IF cur = <<>> THEN acc ELSE Append(acc, cur))
         ELSE SegLoop(p, i + 1, Append(cur, p[i]), acc)

Segments(p) == SegLoop(p, 1, <<>>, <<>>)

\* The segments of a member path resolved against a directory.
ResolvedSegments(dir, p) ==
    IF IsAbs(p) THEN Segments(p) ELSE Segments(dir) \o Segments(p)

\* f is a resolved member, or lies below one, segment by segment.
EqualsOrDescends(dir, paths, f) ==
    \E i \in 1..Len(paths) : IsPrefixSeq(ResolvedSegments(dir, paths[i]), Segments(f))

Min(S) == CHOOSE x \in S : \A y \in S : x <= y

Results(m, f, isDir) == {[ret |-> r.ret, err |-> r.err] : r \in Matches(m, f, isDir)}

InsertAt(ms, k, m) == SubSeq(ms, 1, k) \o <<m>> \o SubSeq(ms, k + 1, Len(ms))

Composed == pc = "run" /\ ctor.op = "NewCompositeMatcher"

\* NewCompositeMatcher has returned and no query has been made yet: the
\* formulas that compare all queries are stated of this state.
JustComposed == Composed /\ call = NoCall

AllPatternCapable == \A i \in 1..Len(matchers) : IsPatternMatcher(matchers[i])

\* C1: a non-empty list of pattern-capable matchers composes to a
\* pattern-capable composite whose AsMatchPatterns is the concatenation, in
\* order and without deduplication, of the constituents' AsMatchPatterns.
C1_PatternComposite ==
    (Composed /\ matchers # <<>> /\ AllPatternCapable) =>
        /\ built.kind = "CompositePatternMatcher"
        /\ IsPatternMatcher(built)
        /\ AsMatchPatterns(built)
              = Flatten([i \in 1..Len(matchers) |-> AsMatchPatterns(matchers[i])])

\* C2: a non-empty list with at least one matcher that lacks pattern
\* capability composes to a plain CompositePathMatcher holding all the given
\* matchers, which never exports patterns.
C2_AllOrNothing ==
    (Composed /\ matchers # <<>> /\ ~AllPatternCapable) =>
        /\ built = CompositePathMatcher(matchers)
        /\ ~IsPatternMatcher(built)
        /\ call.op # "AsMatchPatterns"

C2_Witness ==
    /\ Composed
    /\ Len(matchers) = 3
    /\ IsPatternMatcher(matchers[1])
    /\ ~IsPatternMatcher(matchers[2])
    /\ matchers[3].kind = "CompositePatternMatcher"
    /\ call.op = "Matches"

\* C3: NewGlobMatcher on a list with a malformed pattern ends in an error
\* returned to the caller (the load fails); the process is never aborted.
C3_RecoverableGlobError ==
    /\ pc # "panicked"
    /\ (ctor.op = "NewGlobMatcher" => pc = "failed")

\* C4: AnyMatch returns (true, c, nil) for the lowest-index candidate c that
\* equals or descends from a resolved member, and (false, "", nil) when no
\* candidate does.
C4_FirstMatchingCandidate ==
    (pc = "run" /\ ctor.op = "NewPathSet" /\ call.op = "AnyMatch") =>
        LET hits == {i \in 1..Len(call.paths) :
                        EqualsOrDescends(ctor.baseDir, ctor.paths, call.paths[i])}
        IN  IF hits = {}
            THEN ret = [matched |-> FALSE, path |-> <<>>, err |-> Nil]
            ELSE ret = [matched |-> TRUE, path |-> call.paths[Min(hits)], err |-> Nil]

\* The second candidate matches, below the second member; the first does not.
C4_Witness ==
    /\ pc = "run" /\ ctor.op = "NewPathSet" /\ call.op = "AnyMatch"
    /\ Len(ctor.paths) = 2 /\ Len(call.paths) = 2
    /\ ret.matched
    /\ ret.path = call.paths[2]
    /\ ret.path # call.paths[1]
    /\ ~EqualsOrDescends(ctor.baseDir, <<ctor.paths[1]>>, ret.path)
    /\ ret.path # Join(ctor.baseDir, ctor.paths[2])

\* C5: a matcher of NewRelativeFileOrChildMatcher(baseDir, paths...) matches p
\* iff p is a resolved member or lies below one on segment boundaries,
\* whatever the order the member set is ranged over; the error is nil.
C5_FileOrChild ==
    (pc = "run" /\ ctor.op = "NewRelativeFileOrChildMatcher" /\ call.op = "Matches") =>
        /\ ret.err = Nil
        /\ ret.ret <=> EqualsOrDescends(ctor.baseDir, ctor.paths, call.f)

\* "/r/ab" is asked of the members "/r/a" and one other: no match.
C5_Witness ==
    /\ pc = "run" /\ ctor.op = "NewRelativeFileOrChildMatcher" /\ call.op = "Matches"
    /\ ctor.baseDir = <<"/", "r">>
    /\ Cardinality(built.paths) = 2
    /\ <<"/", "r", "/", "a">> \in built.paths
    /\ <<"a">> \in {ctor.paths[i] : i \in 1..Len(ctor.paths)}
    /\ call.f = <<"/", "r", "/", "a", "b">>
    /\ ~ret.ret

\* C6: CompositePathMatcher.Matches evaluates its constituents in order and
\* stops at the first that matches or fails: (true, nil) when it matches,
\* (false, err) with its error when it fails, (false, nil) when none does;
\* no later constituent is evaluated and no error comes with true.
C6_FirstMatchOrError ==
    (Composed /\ built.kind # "emptyMatcher" /\ call.op = "Matches") =>
        LET n == Len(matchers)
            stops == {i \in 1..n :
                         \E o \in Matches(matchers[i], call.f, call.isDir) :
                            o.ret \/ o.err # Nil}
        IN  /\ ~(ret.ret /\ ret.err # Nil)
            /\ IF stops = {}
               THEN /\ ret.ret = FALSE /\ ret.err = Nil
                    /\ ret.evaluated = [i \in 1..n |-> i]
               ELSE LET k == Min(stops)
                    IN  /\ ret.evaluated = [i \in 1..k |-> i]
                        /\ \A o \in Matches(matchers[k], call.f, call.isDir) :
                              IF o.err # Nil
                              THEN ret.ret = FALSE /\ ret.err = o.err
                              ELSE ret.ret = TRUE /\ ret.err = Nil

\* The first constituent does not match, the second fails, the third would
\* have matched.
C6_Witness ==
    /\ Composed /\ call.op = "Matches" /\ Len(matchers) = 3
    /\ ret.evaluated = <<1, 2>>
    /\ ret.err = "err2"
    /\ \E o \in Matches(matchers[3], call.f, call.isDir) : o.ret

\* C7: NewCompositeMatcher of the empty list is EmptyMatcher itself, and its
\* Matches gives (false, nil) for every path and hint.
C7_EmptyList ==
    (Composed /\ matchers = <<>>) =>
        /\ built = EmptyMatcher
        /\ \A f \in CompositeQueries, isDir \in BOOLEAN :
              Results(built, f, isDir) = {emptyMatcher_Matches(EmptyMatcher, f, isDir)}
        /\ call.op = "Matches" => (ret.ret = FALSE /\ ret.err = Nil)

C7_Witness == Composed /\ matchers = <<>> /\ call.op = "Matches" /\ ~ret.ret

\* C8, as claimed: EmptyMatcher inserted anywhere in the list changes neither
\* the results of Matches nor anything else of the composite, its pattern
\* export included.
C8_AbsorbedEntirely ==
    JustComposed =>
        \A k \in 0..Len(matchers) :
           LET with == NewCompositeMatcher(InsertAt(matchers, k, EmptyMatcher))
           IN  /\ \A f \in CompositeQueries, isDir \in BOOLEAN :
                     Results(with, f, isDir) = Results(built, f, isDir)
               /\ IsPatternMatcher(with) = IsPatternMatcher(built)

\* C8, amended: EmptyMatcher inserted anywhere in the list changes no result
\* or error of Matches (pattern export may be lost).
C8_AbsorbedInMatches ==
    JustComposed =>
        \A k \in 0..Len(matchers) :
           LET with == NewCompositeMatcher(InsertAt(matchers, k, EmptyMatcher))
           IN  \A f \in CompositeQueries, isDir \in BOOLEAN :
                  Results(with, f, isDir) = Results(built, f, isDir)

\* A pattern-capable composite of two that matches some path and fails on
\* another.
C8_Witness ==
    /\ JustComposed /\ Len(matchers) = 2 /\ IsPatternMatcher(built)
    /\ \E f \in CompositeQueries : \E r \in Results(built, f, FALSE) : r.ret
    /\ \E f \in CompositeQueries : \E r \in Results(built, f, FALSE) : r.err # Nil
    /\ ~IsPatternMatcher(NewCompositeMatcher(InsertAt(matchers, 1, EmptyMatcher)))

\* C9: a matcher built by NewSimpleFileMatcher matches p iff p is exactly one
\* of the members made absolute; the hint changes nothing and no query fails.
C9_ExactMember ==
    (pc = "run" /\ ctor.op = "NewSimpleFileMatcher" /\ call.op = "Matches") =>
        /\ ret.err = Nil
        /\ ret.ret <=>
              \E i \in 1..Len(ctor.paths) :
                 Segments(call.f) = ResolvedSegments(ctor.wd, ctor.paths[i])

\* The member "/a" (given as "/a/" or "/a") is asked about "/a/b": no match.
C9_Witness ==
    /\ pc = "run" /\ ctor.op = "NewSimpleFileMatcher" /\ call.op = "Matches"
    /\ <<"/", "a">> \in built.paths
    /\ call.f = <<"/", "a", "/", "b">>
    /\ call.isDir
    /\ ~ret.ret

\* C10: no query changes the constructed object, and a query repeated after
\* any other queries returns what it returned the first time.
C10_QueriesArePure ==
    /\ [][pc = "run" => (built' = built /\ matchers' = matchers /\ ctor' = ctor)]_vars
    /\ []((first # NoFirst /\ first.call = call) => first.ret = ret)

\* A query of a two-member matcher repeated after a different one.
C10_Witness ==
    /\ first # NoFirst /\ first.between /\ first.call = call
    /\ built.kind = "fileOrChildMatcher"
    /\ Cardinality(built.paths) = 2
    /\ ret.ret

====
